---- MODULE Spec2Model ----
(***************************************************************************)
(* UDPRelay server (src/Python/server.py): the group/session state machine *)
(* of UDPGroupServer and its single-threaded event loop.                   *)
(*                                                                         *)
(* Byte strings are sequences of one-character strings.  Python dicts are  *)
(* functions whose DOMAIN is the key set; dict.get(k) of a missing key is  *)
(* the value None.  Times are integers (one unit of time.monotonic()).     *)
(* The stats counters and the stderr log lines are left out: no handler    *)
(* reads them.                                                             *)
(***************************************************************************)
EXTENDS Integers, Sequences, FiniteSets, TLC

VARIABLES
    clock,                  \* time.monotonic() at the top of the next loop iteration
    now,                    \* self.now: the clock as sampled by the last iteration
    next_sweep,             \* self.next_sweep
    groups,                 \* self.groups: gid -> set of peer addresses
    group_creator,          \* self.group_creator: gid -> creator address
    empty_since,            \* self.empty_since: gid -> timestamp
    creator_active_groups,  \* self.creator_active_groups: creator -> set of gids
    client_group,           \* self.client_group: address -> gid
    last_seen,              \* self.last_seen: address -> timestamp
    bufsize,                \* self.bufsize: the configured maximum payload size
    ev,                     \* what the last loop iteration did (its input)
    out,                    \* the datagrams the last loop iteration sent
    emptied_at,             \* history: gid -> clock reading when its member set last became empty
    scen                    \* history: how many packets of the end-to-end scenario have arrived in order

vars == <<clock, now, next_sweep, groups, group_creator, empty_since,
          creator_active_groups, client_group, last_seen, bufsize, ev, out,
          emptied_at, scen>>

-----------------------------------------------------------------------------
(* Bounds of the model *)

\* the clock stops advancing here
MaxTime == 4

\* the client addresses that send packets
Addrs == {"a1", "a2"}

\* None, for an optional group id: client_group.get(addr) of an unbound address.
\* The code tests it with "not gid", which the empty string satisfies too.
None == <<>>

\* None, for an optional capacity; a capacity n is {n}
NoCap == {}

-----------------------------------------------------------------------------
(* Python helpers *)

Max2(a, b) == IF a >= b THEN a ELSE b

Min2(a, b) == IF a <= b THEN a ELSE b

\* dict.get(k): the value, or None
Get(d, k) == IF k \in DOMAIN d THEN d[k] ELSE None

\* dict.pop(k, None)
Pop(d, k) == [x \in (DOMAIN d) \ {k} |-> d[x]]

\* d[k] = v
Put(d, k, v) == [x \in (DOMAIN d) \cup {k} |-> IF x = k THEN v ELSE d[x]]

EmptyDict == [x \in {} |-> 0]

LowerCase == <<"a","b","c","d","e","f","g","h","i","j","k","l","m",
               "n","o","p","q","r","s","t","u","v","w","x","y","z">>

UpperCase == <<"A","B","C","D","E","F","G","H","I","J","K","L","M",
               "N","O","P","Q","R","S","T","U","V","W","X","Y","Z">>

\* str.upper() of one character
UpperChar(c) ==
    IF \E i \in 1..26 : LowerCase[i] = c
    THEN UpperCase[CHOOSE i \in 1..26 : LowerCase[i] = c]
    ELSE c

\* str.upper()
Upper(s) == [i \in 1..Len(s) |-> UpperChar(s[i])]

\* str.lower() of one character
LowerChar(c) ==
    IF \E i \in 1..26 : UpperCase[i] = c
    THEN LowerCase[CHOOSE i \in 1..26 : UpperCase[i] = c]
    ELSE c

\* str.lower()
Lower(s) == [i \in 1..Len(s) |-> LowerChar(s[i])]

\* the characters str.strip() removes
Whitespace == {" ", "\t", "\n", "\r", "\f"}

\* str.strip(): leading and trailing whitespace removed
Strip(s) ==
    LET ns == {i \in 1..Len(s) : s[i] \notin Whitespace}
    IN IF ns = {} THEN <<>>
       ELSE SubSeq(s, CHOOSE i \in ns : \A j \in ns : i <= j,
                      CHOOSE i \in ns : \A j \in ns : i >= j)

\* bytes.find(b" "), 0-based; -1 when there is none
FindSpace(s) ==
    LET sp == {i \in 1..Len(s) : s[i] = " "}
    IN IF sp = {} THEN -1 ELSE (CHOOSE i \in sp : \A j \in sp : i <= j) - 1

\* s[lo:hi] with 0-based lo, exclusive hi
Slice(s, lo, hi) == SubSeq(s, lo + 1, Min2(hi, Len(s)))

-----------------------------------------------------------------------------
(* Command tokens and limits *)

CREATE_CMD == <<"C","R","E","A","T","E">>
JOIN_CMD == <<"J","O","I","N">>
LEAVE_CMD == <<"L","E","A","V","E">>
PING_CMD == <<"P","I","N","G">>
WHO_CMD == <<"W","H","O">>

MAX_CMD_LEN ==
    Max2(Len(CREATE_CMD), Max2(Len(JOIN_CMD), Max2(Len(LEAVE_CMD),
         Max2(Len(PING_CMD), Len(WHO_CMD)))))

MAX_CMD_WITH_PREFIX == 1 + MAX_CMD_LEN

MAX_PAYLOAD == 4096

\* The text after a reply's first words: a fixed text, a group id, numbers
Detail(text, gid, n) == [text |-> text, gid |-> gid, n |-> n]

Text(text) == Detail(text, <<>>, <<>>)

\* OK(detail): the reply "OK <detail>"
OK(detail) == [head |-> "OK", code |-> "", detail |-> detail, raw |-> <<>>]

\* ERR(code, msg): the reply "ERR <code> <msg>"
ERR(code, msg) == [head |-> "ERR", code |-> code, detail |-> msg, raw |-> <<>>]

\* f"PONG {round(float(secs), 3)}"
PONG(secs) == [head |-> "PONG", code |-> "", detail |-> Detail("", <<>>, <<secs>>), raw |-> <<>>]

\* a payload packet, forwarded as it is
Raw(packet) == [head |-> "", code |-> "", detail |-> Text(""), raw |-> packet]

ERR_BAD_CMD == "BAD_CMD"
ERR_BAD_ARG == "BAD_ARG"
ERR_NOT_IN_GROUP == "NOT_IN_GROUP"
ERR_GROUP_FULL == "GROUP_FULL"
ERR_CLIENT_LIMIT == "CLIENT_LIMIT"
ERR_TOO_LARGE == "TOO_LARGE"

\* split_cmd_arg whose head is one byte short: packet[:MAX_CMD_WITH_PREFIX]
split_cmd_arg_short_head(packet) ==
    IF Len(packet) = 0 \/ packet[1] # "!" THEN <<<<>>, <<>>>>
    ELSE LET head == Slice(packet, 0, MAX_CMD_WITH_PREFIX)
             sp == FindSpace(head)
         IN IF sp = -1 THEN <<Slice(packet, 1, Len(packet)), <<>>>>
            ELSE <<Slice(packet, 1, sp), Slice(packet, sp + 1, Len(packet))>>

\* split_cmd_arg(packet): <<token, argument>>
split_cmd_arg(packet) ==
    IF Len(packet) = 0 \/ packet[1] # "!" THEN <<<<>>, <<>>>>
    ELSE LET head == Slice(packet, 0, MAX_CMD_WITH_PREFIX + 1)
             sp == FindSpace(head)
         IN IF sp = -1 THEN <<Slice(packet, 1, Len(packet)), <<>>>>
            ELSE <<Slice(packet, 1, sp), Slice(packet, sp + 1, Len(packet))>>

-----------------------------------------------------------------------------
(* Group identifiers *)

\* random_group_id's alphabet, cut down to two of its 34 characters
Alphabet == {"A", "B"}

\* random_group_id's default length, cut down from 8
GidLength == 1

\* random_group_id(length): every string it can return
random_group_id(length) == [1..length -> Alphabet]

-----------------------------------------------------------------------------
(* Configuration: the arguments of UDPGroupServer.__init__, scaled *)

empty_group_ttl_sec == 1
sweep_interval_sec == 2
suggested_heartbeat_sec == 1
max_group_size == NoCap
per_group_caps == [g \in {<<"A">>} |-> 1]
max_groups_per_client == 1

-----------------------------------------------------------------------------
(* The server's dictionaries as one record, so that handlers compose *)

Cur ==
    [groups |-> groups, group_creator |-> group_creator,
     empty_since |-> empty_since,
     creator_active_groups |-> creator_active_groups,
     client_group |-> client_group, last_seen |-> last_seen, now |-> now]

\* one sendto(data, to); failed: the call raised OSError
Dgram(to, data) == [to |-> to, data |-> data, failed |-> FALSE]

FailedDgram(to, data) == [to |-> to, data |-> data, failed |-> TRUE]

\* a handler's result: the state it leaves and the datagram it sent
Reply(S, to, data) == [st |-> S, out |-> {Dgram(to, data)}]

\* cap_for(gid)
cap_for(gid) ==
    IF gid \in DOMAIN per_group_caps THEN {per_group_caps[gid]} ELSE max_group_size

\* mark_group_empty_if_needed that never sets the timer
mark_group_empty_never_marks(S, gid, t) ==
    [S EXCEPT !.empty_since = Pop(@, gid)]

\* mark_group_empty_if_needed(gid, now)
mark_group_empty_if_needed(S, gid, t) ==
    IF gid \in DOMAIN S.groups /\ Cardinality(S.groups[gid]) = 0
    THEN [S EXCEPT !.empty_since = Put(@, gid, t)]
    ELSE [S EXCEPT !.empty_since = Pop(@, gid)]

\* remove_group that leaves the creator's quota set as it is
remove_group_keeps_quota(S, gid) ==
    [S EXCEPT !.groups = Pop(@, gid),
              !.empty_since = Pop(@, gid),
              !.group_creator = Pop(@, gid)]

\* remove_group(gid)
remove_group(S, gid) ==
    LET S1 == [S EXCEPT !.groups = Pop(@, gid),
                        !.empty_since = Pop(@, gid),
                        !.group_creator = Pop(@, gid)]
    IN IF gid \notin DOMAIN S.group_creator THEN S1
       ELSE LET creator == S.group_creator[gid]
            IN IF creator \notin DOMAIN S1.creator_active_groups THEN S1
               ELSE LET s == S1.creator_active_groups[creator] \ {gid}
                    IN IF s = {}
                       THEN [S1 EXCEPT !.creator_active_groups = Pop(@, creator)]
                       ELSE [S1 EXCEPT !.creator_active_groups = Put(@, creator, s)]

-----------------------------------------------------------------------------
(* Packet handling.  A handler maps the server state S (S.now is self.now)  *)
(* to [st |-> the state it leaves, out |-> the datagrams it sent].          *)

\* handle_payload without the "if peer == addr: continue"
handle_payload_echo(S, packet, addr, fail) ==
    IF Len(packet) > MAX_PAYLOAD
    THEN Reply(S, addr, ERR(ERR_TOO_LARGE, Text("PayloadTooLarge")))
    ELSE LET gid == Get(S.client_group, addr)
         IN IF gid = None \/ gid \notin DOMAIN S.groups
            THEN Reply([S EXCEPT !.client_group = Pop(@, addr)], addr,
                       ERR(ERR_NOT_IN_GROUP, Text("JoinFirstUseJOIN")))
            ELSE LET peers == S.groups[gid]
                     to_prune == {peer \in peers : peer # addr /\ peer \in fail}
                     S1 == [S EXCEPT
                              !.last_seen = [a \in ((DOMAIN @) \cup {addr}) \ to_prune |->
                                                IF a = addr THEN S.now ELSE @[a]],
                              !.groups = Put(@, gid, peers \ to_prune),
                              !.client_group = [a \in (DOMAIN @) \ to_prune |-> @[a]]]
                 IN [st |-> mark_group_empty_if_needed(S1, gid, S.now),
                     out |-> {Dgram(peer, Raw(packet)) : peer \in peers \ to_prune}
                             \cup {FailedDgram(peer, Raw(packet)) : peer \in to_prune}]

\* handle_payload whose fan-out loop ends at the first OSError
handle_payload_stops(S, packet, addr, fail) ==
    IF Len(packet) > MAX_PAYLOAD
    THEN Reply(S, addr, ERR(ERR_TOO_LARGE, Text("PayloadTooLarge")))
    ELSE LET gid == Get(S.client_group, addr)
         IN IF gid = None \/ gid \notin DOMAIN S.groups
            THEN Reply([S EXCEPT !.client_group = Pop(@, addr)], addr,
                       ERR(ERR_NOT_IN_GROUP, Text("JoinFirstUseJOIN")))
            ELSE LET peers == S.groups[gid]
                     to_prune == {peer \in peers : peer # addr /\ peer \in fail}
                     S1 == [S EXCEPT
                              !.last_seen = [a \in ((DOMAIN @) \cup {addr}) \ to_prune |->
                                                IF a = addr THEN S.now ELSE @[a]],
                              !.groups = Put(@, gid, peers \ to_prune),
                              !.client_group = [a \in (DOMAIN @) \ to_prune |-> @[a]]]
                 IN [st |-> mark_group_empty_if_needed(S1, gid, S.now),
                     out |-> IF to_prune = {}
                             THEN {Dgram(peer, Raw(packet)) : peer \in peers \ {addr}}
                             ELSE {FailedDgram(peer, Raw(packet)) : peer \in to_prune}]

\* handle_payload(packet, addr); fail: the peers whose sendto raises OSError
handle_payload(S, packet, addr, fail) ==
    IF Len(packet) > MAX_PAYLOAD
    THEN Reply(S, addr, ERR(ERR_TOO_LARGE, Text("PayloadTooLarge")))
    ELSE LET gid == Get(S.client_group, addr)
         IN IF gid = None \/ gid \notin DOMAIN S.groups
            THEN Reply([S EXCEPT !.client_group = Pop(@, addr)], addr,
                       ERR(ERR_NOT_IN_GROUP, Text("JoinFirstUseJOIN")))
            ELSE LET peers == S.groups[gid]
                     to_prune == {peer \in peers : peer # addr /\ peer \in fail}
                     S1 == [S EXCEPT
                              !.last_seen = [a \in ((DOMAIN @) \cup {addr}) \ to_prune |->
                                                IF a = addr THEN S.now ELSE @[a]],
                              !.groups = Put(@, gid, peers \ to_prune),
                              !.client_group = [a \in (DOMAIN @) \ to_prune |-> @[a]]]
                 IN [st |-> mark_group_empty_if_needed(S1, gid, S.now),
                     out |-> {Dgram(peer, Raw(packet)) : peer \in (peers \ {addr}) \ to_prune}
                             \cup {FailedDgram(peer, Raw(packet)) : peer \in to_prune}]

\* the quota test of handle_create
QuotaUsed(S, addr) ==
    IF addr \in DOMAIN S.creator_active_groups
    THEN Cardinality(S.creator_active_groups[addr]) ELSE 0

\* the quota test with > for >=
QuotaExhausted_off_by_one(S, addr) == QuotaUsed(S, addr) > max_groups_per_client

QuotaExhausted(S, addr) == QuotaUsed(S, addr) >= max_groups_per_client

\* handle_create(addr); gid: the identifier its retry loop ends with
handle_create(S, addr, gid) ==
    IF QuotaExhausted(S, addr)
    THEN Reply(S, addr, ERR(ERR_CLIENT_LIMIT, Detail("/", <<>>, <<QuotaUsed(S, addr), max_groups_per_client>>)))
    ELSE Reply([S EXCEPT
                  !.groups = Put(@, gid, {}),
                  !.group_creator = Put(@, gid, addr),
                  !.empty_since = Put(@, gid, S.now),
                  !.creator_active_groups =
                      Put(@, addr, (IF addr \in DOMAIN @ THEN @[addr] ELSE {}) \cup {gid})],
               addr, OK(Detail("CREATED", gid, <<>>)))

\* the capacity test with > for >=
GroupFull_off_by_one(S, gid) == \E cap \in cap_for(gid) : Cardinality(S.groups[gid]) > cap

\* the capacity test of handle_join
GroupFull(S, gid) == \E cap \in cap_for(gid) : Cardinality(S.groups[gid]) >= cap

\* handle_join that does not leave the old group
leave_old_group_skipped(S, current, addr) == S

\* handle_join's "leave old group if needed"
leave_old_group(S, current, addr) ==
    IF current # None /\ current \in DOMAIN S.groups
    THEN mark_group_empty_if_needed(
             [S EXCEPT !.groups = Put(@, current, @[current] \ {addr})], current, S.now)
    ELSE S

\* handle_join's "join new group"
join_new_group(S, gid, addr) ==
    [S EXCEPT !.client_group = Put(@, addr, gid),
              !.groups = Put(@, gid, @[gid] \cup {addr}),
              !.last_seen = Put(@, addr, S.now),
              !.empty_since = Pop(@, gid)]

\* handle_join that tests the capacity before the "already in group" case
handle_join_cap_first(S, arg_bytes, addr) ==
    LET gid == Upper(Strip(arg_bytes))
        current == Get(S.client_group, addr)
    IN IF gid = <<>>
       THEN Reply(S, addr, ERR(ERR_BAD_ARG, Text("Usage:!JOIN <GROUPID>")))
       ELSE IF gid \notin DOMAIN S.groups
       THEN Reply(S, addr, ERR(ERR_BAD_ARG, Text("NoSuchGroup")))
       ELSE IF GroupFull(S, gid)
       THEN Reply(S, addr, ERR(ERR_GROUP_FULL, Detail("", gid, <<>>)))
       ELSE IF current = gid
       THEN Reply([S EXCEPT !.last_seen = Put(@, addr, S.now)], addr,
                  OK(Detail("JOINED", gid, <<>>)))
       ELSE Reply(join_new_group(leave_old_group(S, current, addr), gid, addr), addr,
                  OK(Detail("JOINED", gid, <<>>)))

\* handle_join without the .upper()
handle_join_no_upper(S, arg_bytes, addr) ==
    LET gid == Strip(arg_bytes)
        current == Get(S.client_group, addr)
    IN IF gid = <<>>
       THEN Reply(S, addr, ERR(ERR_BAD_ARG, Text("Usage:!JOIN <GROUPID>")))
       ELSE IF gid \notin DOMAIN S.groups
       THEN Reply(S, addr, ERR(ERR_BAD_ARG, Text("NoSuchGroup")))
       ELSE IF current = gid
       THEN Reply([S EXCEPT !.last_seen = Put(@, addr, S.now)], addr,
                  OK(Detail("JOINED", gid, <<>>)))
       ELSE IF GroupFull(S, gid)
       THEN Reply(S, addr, ERR(ERR_GROUP_FULL, Detail("", gid, <<>>)))
       ELSE Reply(join_new_group(leave_old_group(S, current, addr), gid, addr), addr,
                  OK(Detail("JOINED", gid, <<>>)))

\* handle_join that leaves the old group before the capacity test
handle_join_leaves_first(S, arg_bytes, addr) ==
    LET gid == Upper(Strip(arg_bytes))
        current == Get(S.client_group, addr)
    IN IF gid = <<>>
       THEN Reply(S, addr, ERR(ERR_BAD_ARG, Text("Usage:!JOIN <GROUPID>")))
       ELSE IF gid \notin DOMAIN S.groups
       THEN Reply(S, addr, ERR(ERR_BAD_ARG, Text("NoSuchGroup")))
       ELSE IF current = gid
       THEN Reply([S EXCEPT !.last_seen = Put(@, addr, S.now)], addr,
                  OK(Detail("JOINED", gid, <<>>)))
       ELSE IF GroupFull(leave_old_group(S, current, addr), gid)
       THEN Reply(leave_old_group(S, current, addr), addr,
                  ERR(ERR_GROUP_FULL, Detail("", gid, <<>>)))
       ELSE Reply(join_new_group(leave_old_group(S, current, addr), gid, addr), addr,
                  OK(Detail("JOINED", gid, <<>>)))

\* handle_join(arg_bytes, addr)
handle_join(S, arg_bytes, addr) ==
    LET gid == Upper(Strip(arg_bytes))
        current == Get(S.client_group, addr)
    IN IF gid = <<>>
       THEN Reply(S, addr, ERR(ERR_BAD_ARG, Text("Usage:!JOIN <GROUPID>")))
       ELSE IF gid \notin DOMAIN S.groups
       THEN Reply(S, addr, ERR(ERR_BAD_ARG, Text("NoSuchGroup")))
       ELSE IF current = gid
       THEN Reply([S EXCEPT !.last_seen = Put(@, addr, S.now)], addr,
                  OK(Detail("JOINED", gid, <<>>)))
       ELSE IF GroupFull(S, gid)
       THEN Reply(S, addr, ERR(ERR_GROUP_FULL, Detail("", gid, <<>>)))
       ELSE Reply(join_new_group(leave_old_group(S, current, addr), gid, addr), addr,
                  OK(Detail("JOINED", gid, <<>>)))

\* handle_leave that does not compare the caller's group with the id
handle_leave_any_group(S, arg_bytes, addr) ==
    LET gid == Upper(Strip(arg_bytes))
        current == Get(S.client_group, addr)
    IN IF gid = <<>>
       THEN Reply(S, addr, ERR(ERR_BAD_ARG, Text("Usage:!LEAVE <GROUPID>")))
       ELSE IF current = None
       THEN Reply(S, addr, ERR(ERR_NOT_IN_GROUP, Text("NotInThatGroup")))
       ELSE LET S1 == [S EXCEPT !.client_group = Pop(@, addr)]
                S2 == IF gid \in DOMAIN S1.groups
                      THEN mark_group_empty_if_needed(
                               [S1 EXCEPT !.groups = Put(@, gid, @[gid] \ {addr})],
                               gid, S.now)
                      ELSE S1
            IN Reply([S2 EXCEPT !.last_seen = Pop(@, addr)], addr, OK(Detail("LEFT", gid, <<>>)))

\* handle_leave that forgets to pop the caller's binding
handle_leave_keeps_binding(S, arg_bytes, addr) ==
    LET gid == Upper(Strip(arg_bytes))
        current == Get(S.client_group, addr)
    IN IF gid = <<>>
       THEN Reply(S, addr, ERR(ERR_BAD_ARG, Text("Usage:!LEAVE <GROUPID>")))
       ELSE IF current = None \/ Upper(current) # gid
       THEN Reply(S, addr, ERR(ERR_NOT_IN_GROUP, Text("NotInThatGroup")))
       ELSE LET S2 == IF gid \in DOMAIN S.groups
                      THEN mark_group_empty_if_needed(
                               [S EXCEPT !.groups = Put(@, gid, @[gid] \ {addr})],
                               gid, S.now)
                      ELSE S
            IN Reply([S2 EXCEPT !.last_seen = Pop(@, addr)], addr, OK(Detail("LEFT", gid, <<>>)))

\* handle_leave(arg_bytes, addr)
handle_leave(S, arg_bytes, addr) ==
    LET gid == Upper(Strip(arg_bytes))
        current == Get(S.client_group, addr)
    IN IF gid = <<>>
       THEN Reply(S, addr, ERR(ERR_BAD_ARG, Text("Usage:!LEAVE <GROUPID>")))
       ELSE IF current = None \/ Upper(current) # gid
       THEN Reply(S, addr, ERR(ERR_NOT_IN_GROUP, Text("NotInThatGroup")))
       ELSE LET S1 == [S EXCEPT !.client_group = Pop(@, addr)]
                S2 == IF gid \in DOMAIN S1.groups
                      THEN mark_group_empty_if_needed(
                               [S1 EXCEPT !.groups = Put(@, gid, @[gid] \ {addr})],
                               gid, S.now)
                      ELSE S1
            IN Reply([S2 EXCEPT !.last_seen = Pop(@, addr)], addr, OK(Detail("LEFT", gid, <<>>)))

\* handle_ping that refreshes last_seen before it looks at the binding
handle_ping_touch_first(S, addr) ==
    LET gid == Get(S.client_group, addr)
        S1 == [S EXCEPT !.last_seen = Put(@, addr, S.now)]
    IN IF gid = None \/ gid \notin DOMAIN S.groups
       THEN Reply([S1 EXCEPT !.client_group = Pop(@, addr)], addr,
                  ERR(ERR_NOT_IN_GROUP, Text("JoinFirstUseJOIN")))
       ELSE Reply(S1, addr, PONG(suggested_heartbeat_sec))

\* handle_ping that does not refresh last_seen
handle_ping_no_touch(S, addr) ==
    LET gid == Get(S.client_group, addr)
    IN IF gid = None \/ gid \notin DOMAIN S.groups
       THEN Reply([S EXCEPT !.client_group = Pop(@, addr)], addr,
                  ERR(ERR_NOT_IN_GROUP, Text("JoinFirstUseJOIN")))
       ELSE Reply(S, addr, PONG(suggested_heartbeat_sec))

\* handle_ping(addr)
handle_ping(S, addr) ==
    LET gid == Get(S.client_group, addr)
    IN IF gid = None \/ gid \notin DOMAIN S.groups
       THEN Reply([S EXCEPT !.client_group = Pop(@, addr)], addr,
                  ERR(ERR_NOT_IN_GROUP, Text("JoinFirstUseJOIN")))
       ELSE Reply([S EXCEPT !.last_seen = Put(@, addr, S.now)], addr,
                  PONG(suggested_heartbeat_sec))

\* handle_who that counts the caller's peers, not the members
handle_who_counts_peers(S, addr) ==
    LET gid == Get(S.client_group, addr)
    IN IF gid = None \/ gid \notin DOMAIN S.groups
       THEN Reply(S, addr, ERR(ERR_NOT_IN_GROUP, Text("JoinFirstUseJOIN")))
       ELSE Reply(S, addr, OK(Detail("WHO", gid, <<Cardinality(S.groups[gid] \ {addr})>>)))

\* handle_who(addr)
handle_who(S, addr) ==
    LET gid == Get(S.client_group, addr)
    IN IF gid = None \/ gid \notin DOMAIN S.groups
       THEN Reply(S, addr, ERR(ERR_NOT_IN_GROUP, Text("JoinFirstUseJOIN")))
       ELSE Reply(S, addr, OK(Detail("WHO", gid, <<Cardinality(S.groups[gid])>>)))

\* handle_command(packet, addr); gid: the identifier a CREATE would draw
handle_command(S, packet, addr, gid) ==
    LET cmd == split_cmd_arg(packet)[1]
        arg_bytes == split_cmd_arg(packet)[2]
    IN IF cmd = <<>> THEN Reply(S, addr, ERR(ERR_BAD_CMD, Text("UnknownCommand")))
       ELSE IF Len(cmd) > MAX_CMD_LEN THEN Reply(S, addr, ERR(ERR_BAD_CMD, Text("UnknownCommand")))
       ELSE IF cmd = CREATE_CMD THEN handle_create(S, addr, gid)
       ELSE IF cmd = JOIN_CMD THEN handle_join(S, arg_bytes, addr)
       ELSE IF cmd = LEAVE_CMD THEN handle_leave(S, arg_bytes, addr)
       ELSE IF cmd = PING_CMD THEN handle_ping(S, addr)
       ELSE IF cmd = WHO_CMD THEN handle_who(S, addr)
       ELSE Reply(S, addr, ERR(ERR_BAD_CMD, Text("UnknownCommand")))

\* the inactivity test with a cutoff one unit too early
IsInactive_late(seen_at, t) == seen_at < t - 3 * suggested_heartbeat_sec - 1

\* the inactivity test of sweep: seen_at < cutoff_clients
IsInactive(seen_at, t) == seen_at < t - 3 * suggested_heartbeat_sec

\* the expiry test with a cutoff one unit too early
IsExpired_late(since, t) == since < t - empty_group_ttl_sec - 1

\* the expiry test of sweep: since < cutoff_groups
IsExpired(since, t) == since < t - empty_group_ttl_sec

\* an eviction that forgets the group's member set
evict_client_keeps_member(S, a) ==
    [S EXCEPT !.client_group = Pop(@, a), !.last_seen = Pop(@, a)]

\* one turn of sweep's first loop: evict client a
evict_client(S, a) ==
    LET gid == Get(S.client_group, a)
        S1 == [S EXCEPT !.client_group = Pop(@, a), !.last_seen = Pop(@, a)]
    IN IF gid # None /\ gid \in DOMAIN S1.groups
       THEN mark_group_empty_if_needed(
                [S1 EXCEPT !.groups = Put(@, gid, @[gid] \ {a})], gid, S.now)
       ELSE S1

\* sweep's first loop over the clients in todo, seen: the snapshot of last_seen
RECURSIVE prune_clients(_, _, _)
prune_clients(S, seen, todo) ==
    IF todo = {} THEN S
    ELSE LET a == CHOOSE x \in todo : TRUE
         IN prune_clients(IF IsInactive(seen[a], S.now) THEN evict_client(S, a) ELSE S,
                          seen, todo \ {a})

\* sweep's second loop over the groups in todo, since: the snapshot of empty_since
RECURSIVE prune_groups(_, _, _)
prune_groups(S, since, todo) ==
    IF todo = {} THEN S
    ELSE LET gid == CHOOSE x \in todo : TRUE
         IN prune_groups(IF /\ IsExpired(since[gid], S.now)
                            /\ gid \in DOMAIN S.groups
                            /\ Cardinality(S.groups[gid]) = 0
                         THEN remove_group(S, gid) ELSE S,
                         since, todo \ {gid})

\* sweep()
sweep(S) ==
    LET S1 == prune_clients(S, S.last_seen, DOMAIN S.last_seen)
    IN prune_groups(S1, S1.empty_since, DOMAIN S1.empty_since)

-----------------------------------------------------------------------------
(* The packets the clients send *)

Cmd(tok) == <<"!">> \o tok

CmdArg(tok, arg) == <<"!">> \o tok \o <<" ">> \o arg

\* a packet one byte longer than MAX_PAYLOAD
Oversize == [i \in 1..(MAX_PAYLOAD + 1) |-> "x"]

PacketList ==
    << Cmd(CREATE_CMD),
       CmdArg(JOIN_CMD, <<"A">>),
       CmdArg(JOIN_CMD, <<"b">>),
       CmdArg(LEAVE_CMD, <<"a">>),
       CmdArg(LEAVE_CMD, <<"B">>),
       Cmd(PING_CMD),
       Cmd(WHO_CMD),
       <<"h", "i">> >>

Packets == 1..Len(PacketList)

\* a payload two bytes longer than the shortest command with an argument
LongPayload == <<"o", "v", "e", "r", "s", "i", "z", "e", "d">>

\* further packets: other spellings of a group id, a LEAVE without an id, and
\* packets longer than a configured maximum payload size
MorePackets ==
    << CmdArg(JOIN_CMD, <<"B">>),
       CmdArg(JOIN_CMD, <<" ", "b", "\t">>),
       CmdArg(LEAVE_CMD, <<" ", "a", "\n">>),
       Cmd(LEAVE_CMD),
       CmdArg(LEAVE_CMD, <<" ">>),
       LongPayload,
       Oversize >>

\* '!' packets that carry no command, or a command written in another way
ParsePacketList ==
    << <<"!">>,
       <<"!", " ", "P", "I", "N", "G">>,
       <<"!", "p", "i", "n", "g">>,
       Cmd(CREATE_CMD \o <<"X">>),
       Cmd(PING_CMD \o <<"S">>),
       CmdArg(CREATE_CMD, <<"x">>),
       Cmd(JOIN_CMD) >>

AllPackets == PacketList \o MorePackets \o ParsePacketList

\* where a packet is in AllPackets
IndexOf(data) == CHOOSE i \in 1..Len(AllPackets) : AllPackets[i] = data

-----------------------------------------------------------------------------
(* The event loop: UDPGroupServer.run, one action per loop iteration *)

\* what one loop iteration was: a received packet (its sender, its index in
\* PacketList, the group the sender was bound to before it) or a select timeout
\* (whether the sweep ran, the clients it evicted, the groups it removed, and
\* the groups that had been empty for longer than the TTL when it ran)
Event(kind, addr, pkt, was, swept, evicted, removed, aged) ==
    [kind |-> kind, addr |-> addr, pkt |-> pkt, was |-> was,
     swept |-> swept, evicted |-> evicted, removed |-> removed, aged |-> aged]

\* UDPGroupServer(bufsize=size): the server as constructed
Constructed(size) ==
    /\ bufsize = size
    /\ clock = 0
    /\ now = 0
    /\ next_sweep = 0 + sweep_interval_sec
    /\ groups = EmptyDict
    /\ group_creator = EmptyDict
    /\ empty_since = EmptyDict
    /\ creator_active_groups = EmptyDict
    /\ client_group = EmptyDict
    /\ last_seen = EmptyDict
    /\ ev = Event("init", "", 0, None, FALSE, {}, {}, {})
    /\ out = {}
    /\ emptied_at = EmptyDict
    /\ scen = 0

\* the server with the default bufsize
Init == Constructed(MAX_PAYLOAD)

\* the state an iteration leaves, with the history of when groups became empty
Store(S, t) ==
    /\ groups' = S.groups
    /\ group_creator' = S.group_creator
    /\ empty_since' = S.empty_since
    /\ creator_active_groups' = S.creator_active_groups
    /\ client_group' = S.client_group
    /\ last_seen' = S.last_seen
    /\ emptied_at' = [g \in {x \in DOMAIN S.groups : S.groups[x] = {}} |->
                         IF g \in DOMAIN emptied_at THEN emptied_at[g] ELSE t]

\* what run does with one received packet
process_packet(S, packet, addr, gid, fail) ==
    IF Len(packet) = 0 THEN [st |-> S, out |-> {}]
    ELSE IF Len(packet) > MAX_PAYLOAD
    THEN Reply(S, addr, ERR(ERR_TOO_LARGE, Text("PayloadTooLarge")))
    ELSE IF packet[1] # "!" THEN handle_payload(S, packet, addr, fail)
    ELSE handle_command(S, packet, addr, gid)

\* handle_create without the "while gid in self.groups" retry
FreshIds_no_retry(S, packet, addr) ==
    IF split_cmd_arg(packet)[1] = CREATE_CMD /\ ~QuotaExhausted(S, addr)
    THEN random_group_id(GidLength)
    ELSE {None}

\* the identifiers a CREATE from addr can end up with: not a live group's
FreshIds(S, packet, addr) ==
    IF split_cmd_arg(packet)[1] = CREATE_CMD /\ ~QuotaExhausted(S, addr)
    THEN random_group_id(GidLength) \ DOMAIN S.groups
    ELSE {None}

\* the sets of peers a fan-out of this packet can fail to reach
SendFailures(S, packet, addr) ==
    IF /\ Len(packet) > 0
       /\ packet[1] # "!"
       /\ addr \in DOMAIN S.client_group
       /\ S.client_group[addr] \in DOMAIN S.groups
    THEN SUBSET (S.groups[S.client_group[addr]] \ {addr})
    ELSE {{}}

\* the end-to-end scenario around group gid: who sends what, in order
Scenario(gid) ==
    << [from |-> "a1", data |-> Cmd(CREATE_CMD)],
       [from |-> "a1", data |-> CmdArg(JOIN_CMD, Lower(gid))],
       [from |-> "a2", data |-> CmdArg(JOIN_CMD, gid)],
       [from |-> "a1", data |-> <<"h", "i">>],
       [from |-> "a2", data |-> Cmd(WHO_CMD)] >>

\* the scenario is over, or was left
ScenarioOff == Len(Scenario(None)) + 1

\* the scenario's position after this packet: one further when the packet is
\* the scenario's next one, the first being the CREATE of the only group, and
\* every send of the fan-out went through
ScenarioAfter(k, S, packet, addr, fail) ==
    IF /\ k < Len(Scenario(None))
       /\ fail = {}
       /\ \E gid \in (IF k = 0 THEN {None} ELSE DOMAIN S.groups) :
            /\ Scenario(gid)[k + 1].from = addr
            /\ Scenario(gid)[k + 1].data = packet
    THEN k + 1
    ELSE ScenarioOff

\* an iteration whose select finds the socket readable after waiting w
RecvPacket(addr, p, w) ==
    LET S == [Cur EXCEPT !.now = clock]
        timeout == Max2(0, next_sweep - clock)
        packet == Slice(AllPackets[p], 0, bufsize + 1)
    IN /\ w <= timeout
       /\ clock + w <= MaxTime
       /\ \E gid \in FreshIds(S, packet, addr), fail \in SendFailures(S, packet, addr) :
            LET r == process_packet(S, packet, addr, gid, fail)
            IN /\ Store(r.st, clock + w)
               /\ out' = r.out
               /\ scen' = ScenarioAfter(scen, S, packet, addr, fail)
       /\ now' = clock
       /\ clock' = clock + w
       /\ ev' = Event("packet", addr, p, Get(client_group, addr), FALSE, {}, {}, {})
       /\ UNCHANGED <<next_sweep, bufsize>>

\* an iteration whose select times out
SelectTimeout ==
    LET S == [Cur EXCEPT !.now = clock]
        timeout == Max2(0, next_sweep - clock)
    IN /\ clock + timeout <= MaxTime
       /\ now' = clock
       /\ clock' = clock + timeout
       /\ out' = {}
       /\ UNCHANGED bufsize
       /\ scen' = IF S.now >= next_sweep /\ sweep(S) # S THEN ScenarioOff ELSE scen
       /\ IF S.now >= next_sweep
          THEN /\ Store(sweep(S), clock)
               /\ next_sweep' = S.now + sweep_interval_sec
               /\ ev' = Event("timeout", "", 0, None, TRUE,
                              (DOMAIN last_seen) \ DOMAIN sweep(S).last_seen,
                              (DOMAIN groups) \ DOMAIN sweep(S).groups,
                              {g \in DOMAIN emptied_at :
                                   clock - emptied_at[g] > empty_group_ttl_sec})
          ELSE /\ Store(S, clock)
               /\ UNCHANGED next_sweep
               /\ ev' = Event("timeout", "", 0, None, FALSE, {}, {}, {})

Next ==
    \/ \E addr \in Addrs, p \in Packets, w \in 0..sweep_interval_sec :
         RecvPacket(addr, p, w)
    \/ SelectTimeout

Spec == Init /\ [][Next]_vars

-----------------------------------------------------------------------------
(* The same loop with other clients *)

\* three clients that join group B and send payloads, one of them creates groups
FanoutAddrs == Addrs \cup {"a3"}

FanoutPackets == {IndexOf(CmdArg(JOIN_CMD, <<"b">>)), IndexOf(<<"h", "i">>)}

NextFanout ==
    \/ \E w \in 0..sweep_interval_sec : RecvPacket("a1", IndexOf(Cmd(CREATE_CMD)), w)
    \/ \E addr \in FanoutAddrs, p \in FanoutPackets, w \in 0..sweep_interval_sec :
         RecvPacket(addr, p, w)
    \/ SelectTimeout

SpecFanout == Init /\ [][NextFanout]_vars

\* two clients that send the packets of the end-to-end scenario, in any order;
\* the scenario's group is B, which has room for both (A holds one member)
ScenarioPackets ==
    {IndexOf(Scenario(gid)[k].data) : gid \in {<<"B">>}, k \in 1..Len(Scenario(None))}

NextScenario ==
    \/ \E addr \in Addrs, p \in ScenarioPackets, w \in 0..sweep_interval_sec :
         RecvPacket(addr, p, w)
    \/ SelectTimeout

SpecScenario == Init /\ [][NextScenario]_vars

\* two clients that spell group ids in other ways, or leave them out
ArgPackets ==
    {IndexOf(Cmd(CREATE_CMD)),
     IndexOf(CmdArg(JOIN_CMD, <<"A">>)),
     IndexOf(CmdArg(JOIN_CMD, <<"b">>)),
     IndexOf(CmdArg(JOIN_CMD, <<" ", "b", "\t">>)),
     IndexOf(CmdArg(LEAVE_CMD, <<"a">>)),
     IndexOf(CmdArg(LEAVE_CMD, <<"B">>)),
     IndexOf(CmdArg(LEAVE_CMD, <<" ", "a", "\n">>)),
     IndexOf(Cmd(LEAVE_CMD)),
     IndexOf(CmdArg(LEAVE_CMD, <<" ">>))}

NextArgs ==
    \/ \E addr \in Addrs, p \in ArgPackets, w \in 0..sweep_interval_sec :
         RecvPacket(addr, p, w)
    \/ SelectTimeout

SpecArgs == Init /\ [][NextArgs]_vars

\* a server constructed with another bufsize: one that lets "!JOIN A" through
\* but no longer packet, or the default
BufSizes == {Len(CmdArg(JOIN_CMD, <<"A">>)), MAX_PAYLOAD}

InitBuf == \E size \in BufSizes : Constructed(size)

BufPackets ==
    {IndexOf(Cmd(CREATE_CMD)),
     IndexOf(CmdArg(JOIN_CMD, <<"b">>)),
     IndexOf(CmdArg(LEAVE_CMD, <<"B">>)),
     IndexOf(<<"h", "i">>),
     IndexOf(LongPayload),
     IndexOf(Oversize)}

NextBuf ==
    \/ \E addr \in Addrs, p \in BufPackets, w \in 0..sweep_interval_sec :
         RecvPacket(addr, p, w)
    \/ SelectTimeout

SpecBuf == InitBuf /\ [][NextBuf]_vars

\* two clients that also send '!' packets of every shape
ParsePackets ==
    {IndexOf(Cmd(CREATE_CMD)),
     IndexOf(CmdArg(JOIN_CMD, <<"b">>)),
     IndexOf(CmdArg(JOIN_CMD, <<" ", "b", "\t">>)),
     IndexOf(Cmd(PING_CMD))}
    \cup {IndexOf(ParsePacketList[i]) : i \in 1..Len(ParsePacketList)}

NextParse ==
    \/ \E addr \in Addrs, p \in ParsePackets, w \in 0..sweep_interval_sec :
         RecvPacket(addr, p, w)
    \/ SelectTimeout

SpecParse == Init /\ [][NextParse]_vars

\* two clients whose packets draw every error reply
ErrPackets ==
    {IndexOf(Cmd(CREATE_CMD)),
     IndexOf(CmdArg(JOIN_CMD, <<"A">>)),
     IndexOf(CmdArg(JOIN_CMD, <<"b">>)),
     IndexOf(CmdArg(LEAVE_CMD, <<"a">>)),
     IndexOf(Cmd(PING_CMD)),
     IndexOf(Cmd(WHO_CMD)),
     IndexOf(<<"h", "i">>),
     IndexOf(Cmd(PING_CMD \o <<"S">>)),
     IndexOf(Oversize)}

NextErr ==
    \/ \E addr \in Addrs, p \in ErrPackets, w \in 0..sweep_interval_sec :
         RecvPacket(addr, p, w)
    \/ SelectTimeout

SpecErr == Init /\ [][NextErr]_vars

\* the loop of run() never stops: while True always begins another iteration.
\* Which branch an iteration takes is select()'s answer, that is the peers'
\* doing, so no branch is fair on its own.
LivePackets ==
    {IndexOf(Cmd(CREATE_CMD)),
     IndexOf(CmdArg(JOIN_CMD, <<"A">>)),
     IndexOf(Cmd(PING_CMD))}

NextLive ==
    \/ \E addr \in Addrs, p \in LivePackets, w \in 0..sweep_interval_sec :
         RecvPacket(addr, p, w)
    \/ SelectTimeout

SpecLive == Init /\ [][NextLive]_vars /\ WF_vars(NextLive)

-----------------------------------------------------------------------------
(* Reading a step: the packet the iteration received and the reply it sent *)

\* the last iteration received a packet
IsPacket(e) == e.kind = "packet"

\* the last iteration was a select timeout whose sweep ran
IsSweep(e) == e.kind = "timeout" /\ e.swept

\* each packet of AllPackets as split_cmd_arg splits it, with the group id its
\* argument names
Parsed ==
    [p \in 1..Len(AllPackets) |->
        [tok |-> split_cmd_arg(AllPackets[p])[1],
         arg |-> split_cmd_arg(AllPackets[p])[2],
         gid |-> Upper(Strip(split_cmd_arg(AllPackets[p])[2]))]]

\* the command a packet carries and the group id its argument names
ReqToken(e) == Parsed[e.pkt].tok

ReqGid(e) == Parsed[e.pkt].gid

\* the iteration answered its sender with exactly this one datagram
Answered(e, o, data) == o = {Dgram(e.addr, data)}

\* the groups an address created that are live
Owned(c) == {g \in DOMAIN groups : g \in DOMAIN group_creator /\ group_creator[g] = c}

\* the group's effective capacity: its override, else the global cap
EffectiveCap(g) == IF g \in DOMAIN per_group_caps THEN {per_group_caps[g]} ELSE max_group_size

-----------------------------------------------------------------------------
(* C1 *)

\* C1: in every reachable state, for every address a and live group g,
\* a is a member of g if and only if client_group[a] = g.
C1_MembershipConsistent ==
    \A a \in Addrs : \A g \in DOMAIN groups :
        (a \in groups[g]) <=> (Get(client_group, a) = g)

\* a fan-out has just pruned a peer whose send failed, and the sender stays bound
C1_Witness ==
    /\ IsPacket(ev)
    /\ \E d \in out : d.failed
    /\ \E g \in DOMAIN groups : groups[g] = {ev.addr}

-----------------------------------------------------------------------------
(* C2 *)

C2_QuotaBound == \A c \in Addrs : Cardinality(Owned(c)) <= max_groups_per_client

C2_CreateAtCap ==
    (/\ IsPacket(ev')
     /\ ReqToken(ev') = CREATE_CMD
     /\ Cardinality(Owned(ev'.addr)) >= max_groups_per_client)
    => /\ \E d \in out' : /\ out' = {d}
                          /\ d.to = ev'.addr
                          /\ d.data.head = "ERR"
                          /\ d.data.code = ERR_CLIENT_LIMIT
       /\ groups' = groups
       /\ group_creator' = group_creator

\* C2: no creator ever owns more than max_groups_per_client live groups, and a
\* CREATE from a creator who owns that many is answered ERR CLIENT_LIMIT and
\* adds no group.
C2_Quota == [](C2_QuotaBound) /\ [][C2_CreateAtCap]_vars

\* a CREATE has just been refused with CLIENT_LIMIT
C2_Witness ==
    /\ IsPacket(ev)
    /\ ReqToken(ev) = CREATE_CMD
    /\ Cardinality(Owned(ev.addr)) = max_groups_per_client
    /\ \E d \in out : d.data.code = ERR_CLIENT_LIMIT

-----------------------------------------------------------------------------
(* C3 *)

C3_CapacityBound ==
    \A g \in DOMAIN groups : \A c \in EffectiveCap(g) : Cardinality(groups[g]) <= c

C3_JoinWhenFull ==
    (/\ IsPacket(ev')
     /\ ReqToken(ev') = JOIN_CMD
     /\ ReqGid(ev') \in DOMAIN groups
     /\ ev'.addr \notin groups[ReqGid(ev')]
     /\ \E c \in EffectiveCap(ReqGid(ev')) : Cardinality(groups[ReqGid(ev')]) >= c)
    => /\ Answered(ev', out', ERR(ERR_GROUP_FULL, Detail("", ReqGid(ev'), <<>>)))
       /\ groups' = groups
       /\ client_group' = client_group

\* C3: a group with a numeric effective capacity c never has more than c
\* members, and a JOIN by a non-member when it has c members already is answered
\* ERR GROUP_FULL and changes no member set and no binding.
C3_Capacity == [](C3_CapacityBound) /\ [][C3_JoinWhenFull]_vars

\* a JOIN has just been refused with GROUP_FULL while its sender is bound elsewhere
C3_Witness ==
    /\ IsPacket(ev)
    /\ ReqToken(ev) = JOIN_CMD
    /\ \E d \in out : d.data.code = ERR_GROUP_FULL
    /\ ev.addr \in DOMAIN client_group
    /\ client_group[ev.addr] # ReqGid(ev)

-----------------------------------------------------------------------------
(* C4 *)

\* the group id an OK CREATED reply of this step carries
Created(o) == {d.data.detail.gid : d \in {x \in o : x.data.head = "OK" /\ x.data.detail.text = "CREATED"}}

C4_CreateStep ==
    (IsPacket(ev') /\ ReqToken(ev') = CREATE_CMD /\ Created(out') # {})
    => \E gid \in Created(out') :
         /\ Answered(ev', out', OK(Detail("CREATED", gid, <<>>)))
         /\ gid \notin DOMAIN groups
         /\ groups' = Put(groups, gid, {})
         /\ group_creator' = Put(group_creator, gid, ev'.addr)
         /\ empty_since' = Put(empty_since, gid, now')
         /\ creator_active_groups' =
                Put(creator_active_groups, ev'.addr,
                    (IF ev'.addr \in DOMAIN creator_active_groups
                     THEN creator_active_groups[ev'.addr] ELSE {}) \cup {gid})
         /\ Cardinality(creator_active_groups'[ev'.addr]) = Cardinality(Owned(ev'.addr)) + 1
         /\ client_group' = client_group
         /\ last_seen' = last_seen
         /\ Get(client_group', ev'.addr) # gid

\* C4: a successful CREATE returns an identifier that was not live, and only
\* adds that group: empty, created by the caller, its empty-timer set, one more
\* quota slot used; the caller is not bound to it, and every other group, every
\* binding and every last-activity stay as they were.
C4_CreateFrame == [][C4_CreateStep]_vars

\* a CREATE has just succeeded while another group has a member
C4_Witness ==
    /\ IsPacket(ev)
    /\ Created(out) # {}
    /\ \E g \in DOMAIN groups : groups[g] # {}
    /\ ev.addr \in DOMAIN client_group

-----------------------------------------------------------------------------
(* C5 *)

C5_SwitchStep ==
    (/\ IsPacket(ev')
     /\ ReqToken(ev') = JOIN_CMD
     /\ ev'.addr \in DOMAIN client_group
     /\ client_group[ev'.addr] \in DOMAIN groups
     /\ ReqGid(ev') \in DOMAIN groups
     /\ ReqGid(ev') # client_group[ev'.addr]
     /\ Answered(ev', out', OK(Detail("JOINED", ReqGid(ev'), <<>>))))
    => LET g1 == client_group[ev'.addr]
           g2 == ReqGid(ev')
       IN /\ ev'.addr \notin groups'[g1]
          /\ ev'.addr \in groups'[g2]
          /\ g2 \notin DOMAIN empty_since'
          /\ (g1 \in DOMAIN empty_since') <=> (groups'[g1] = {})
          /\ groups'[g1] = {} => empty_since'[g1] = now'

\* C5: when an address bound to g1 successfully JOINs another live group g2, it
\* is afterwards absent from g1 and present in g2, g2 has no empty-timer, and g1
\* has an empty-timer exactly when it has no members left.
C5_ExclusiveMembership == [][C5_SwitchStep]_vars

\* an address has just switched groups, leaving its old group empty
C5_Witness ==
    /\ IsPacket(ev)
    /\ ReqToken(ev) = JOIN_CMD
    /\ ev.was # None
    /\ ev.was # ReqGid(ev)
    /\ ev.was \in DOMAIN groups
    /\ groups[ev.was] = {}
    /\ Get(client_group, ev.addr) = ReqGid(ev)

-----------------------------------------------------------------------------
(* C6 *)

C6_RejoinStep ==
    (/\ IsPacket(ev')
     /\ ReqToken(ev') = JOIN_CMD
     /\ ReqGid(ev') \in DOMAIN groups
     /\ Get(client_group, ev'.addr) = ReqGid(ev'))
    => /\ Answered(ev', out', OK(Detail("JOINED", ReqGid(ev'), <<>>)))
       /\ groups' = groups
       /\ client_group' = client_group
       /\ empty_since' = empty_since
       /\ group_creator' = group_creator
       /\ creator_active_groups' = creator_active_groups
       /\ last_seen' = Put(last_seen, ev'.addr, now')

\* C6: a JOIN of the group the caller is already bound to is answered
\* OK JOINED and changes no member set, binding, empty-timer or quota set (only
\* the caller's last-activity, refreshed to now), also when the group is full.
C6_IdempotentRejoin == [][C6_RejoinStep]_vars

\* a member of a full group has just re-joined it and got OK JOINED
C6_Witness ==
    /\ IsPacket(ev)
    /\ ReqToken(ev) = JOIN_CMD
    /\ ev.was = ReqGid(ev)
    /\ ReqGid(ev) \in DOMAIN groups
    /\ \E c \in EffectiveCap(ReqGid(ev)) : Cardinality(groups[ReqGid(ev)]) = c
    /\ Answered(ev, out, OK(Detail("JOINED", ReqGid(ev), <<>>)))

-----------------------------------------------------------------------------
(* C7 *)

\* C7: in every reachable state a live group has an empty_since entry if and
\* only if it has no members, and no other identifier has one.
C7_EmptyTimer ==
    /\ \A g \in DOMAIN groups : (g \in DOMAIN empty_since) <=> (groups[g] = {})
    /\ DOMAIN empty_since \subseteq DOMAIN groups

\* a sweep has just destroyed a group while another group has members
C7_Witness ==
    /\ IsSweep(ev)
    /\ ev.removed # {}
    /\ \E g \in DOMAIN groups : groups[g] # {}

-----------------------------------------------------------------------------
(* C8 *)

C8_SweepStep ==
    IsSweep(ev')
    => \A g \in DOMAIN groups :
         (groups[g] = {} /\ now' - emptied_at[g] > empty_group_ttl_sec)
         => /\ g \notin DOMAIN groups'
            /\ g \notin DOMAIN group_creator'
            /\ g \notin DOMAIN empty_since'

\* C8: a group that has had no members for longer than empty_group_ttl_sec
\* when a sweep runs is in none of groups, group_creator and empty_since after
\* that sweep.
C8_TtlEviction == [][C8_SweepStep]_vars

\* a sweep has just run over a group empty for longer than the TTL, and nothing
\* of that group is left
C8_Witness ==
    /\ IsSweep(ev)
    /\ \E g \in ev.aged :
         g \notin (DOMAIN groups) \cup (DOMAIN group_creator) \cup (DOMAIN empty_since)

-----------------------------------------------------------------------------
(* C9 *)

C9_SweepStep ==
    IsSweep(ev')
    => \A g \in DOMAIN groups :
         (groups[g] = {} /\ now' - emptied_at[g] < empty_group_ttl_sec)
         => g \in DOMAIN groups'

\* C9: a group whose member set became empty less than empty_group_ttl_sec
\* before a sweep runs, counted from the clock reading at which the emptying
\* packet was received, is still in the registry after that sweep.
C9_YoungGroupSurvives == [][C9_SweepStep]_vars

-----------------------------------------------------------------------------
(* C10 *)

\* the sessions a sweep at time t finds inactive
Stale(t) == {a \in DOMAIN last_seen : t - last_seen[a] > 3 * suggested_heartbeat_sec}

C10_SweepStep ==
    IsSweep(ev')
    => \A a \in Stale(now') :
         /\ a \notin DOMAIN client_group'
         /\ a \notin DOMAIN last_seen'
         /\ \A g \in DOMAIN groups :
              a \in groups[g]
              => /\ g \in DOMAIN groups'
                 /\ a \notin groups'[g]
                 /\ Cardinality(groups'[g]) =
                        Cardinality(groups[g]) - Cardinality(groups[g] \cap Stale(now'))
                 /\ groups'[g] = {} => (g \in DOMAIN empty_since' /\ empty_since'[g] = now')

\* C10: a session whose last activity is older than 3 x suggested_heartbeat_sec
\* when a sweep runs is removed by that sweep from client_group, from last_seen
\* and from its group's member set; the group loses one member for each such
\* session, and gets its empty-timer set if that leaves it empty.
C10_InactivityEviction == [][C10_SweepStep]_vars

\* a sweep has just evicted a session and left its group empty, timer set
C10_Witness ==
    /\ IsSweep(ev)
    /\ \E a \in ev.evicted : a \notin (DOMAIN client_group) \cup (DOMAIN last_seen)
    /\ \E g \in DOMAIN groups : groups[g] = {} /\ empty_since[g] = now

-----------------------------------------------------------------------------
(* C11 *)

\* the packet of a step is not a command
IsPayload(e) == AllPackets[e.pkt][1] # "!"

C11_FanoutStep ==
    (/\ IsPacket(ev')
     /\ IsPayload(ev')
     /\ ev'.addr \in DOMAIN client_group
     /\ client_group[ev'.addr] \in DOMAIN groups)
    => LET targets == groups[client_group[ev'.addr]] \ {ev'.addr}
       IN /\ {d.to : d \in out'} = targets
          /\ Cardinality(out') = Cardinality(targets)
          /\ \A d \in out' : d.data = Raw(AllPackets[ev'.pkt])

\* C11: for a payload packet from an address bound to live group g, the
\* addresses the server attempts to send to are exactly the members of g other
\* than the sender, one datagram each, carrying the payload as received.
C11_FanoutTargets == [][C11_FanoutStep]_vars

\* a payload has just gone to another member while a third client is in no group
C11_Witness ==
    /\ IsPacket(ev)
    /\ IsPayload(ev)
    /\ \E d \in out : ~d.failed /\ d.to # ev.addr /\ d.data = Raw(AllPackets[ev.pkt])
    /\ \E a \in FanoutAddrs : a # ev.addr /\ a \notin {d.to : d \in out}

-----------------------------------------------------------------------------
(* C12 *)

\* no dictionary of the server changes in this step
StateUnchanged ==
    /\ groups' = groups
    /\ group_creator' = group_creator
    /\ empty_since' = empty_since
    /\ creator_active_groups' = creator_active_groups
    /\ client_group' = client_group
    /\ last_seen' = last_seen

C12_OversizeStep ==
    (IsPacket(ev') /\ Len(AllPackets[ev'.pkt]) > bufsize)
    => /\ Answered(ev', out', ERR(ERR_TOO_LARGE, Text("PayloadTooLarge")))
       /\ StateUnchanged

\* C12: whatever bufsize the server was constructed with, a packet longer than
\* bufsize is answered ERR TOO_LARGE and nothing else is sent (it is not
\* forwarded), and no group or session state changes (it is not run as a
\* command).
C12_OversizeRejected == [][C12_OversizeStep]_vars

-----------------------------------------------------------------------------
(* C13 *)

\* the k-th packet of the scenario has just arrived, right after the others
ScenarioAt(k) == scen = k - 1 /\ scen' = k

\* what the server sends at each packet of the scenario around group gid
C13_Replies(gid) ==
    /\ ScenarioAt(1) => /\ groups = EmptyDict /\ client_group = EmptyDict
                         /\ DOMAIN groups' = {gid}
                         /\ out' = {Dgram("a1", OK(Detail("CREATED", gid, <<>>)))}
    /\ ScenarioAt(2) => /\ AllPackets[ev'.pkt] = CmdArg(JOIN_CMD, Lower(gid))
                         /\ Lower(gid) # gid
                         /\ out' = {Dgram("a1", OK(Detail("JOINED", gid, <<>>)))}
    /\ ScenarioAt(3) => out' = {Dgram("a2", OK(Detail("JOINED", gid, <<>>)))}
    /\ ScenarioAt(4) => out' = {Dgram("a2", Raw(AllPackets[ev'.pkt]))}
    /\ ScenarioAt(5) => out' = {Dgram("a2", OK(Detail("WHO", gid, <<2>>)))}

C13_Step ==
    (\E k \in 1..Len(Scenario(None)) : ScenarioAt(k))
    => \E gid \in DOMAIN groups' : DOMAIN groups' = {gid} /\ C13_Replies(gid)

\* C13: from the empty server, a1:!CREATE, a1:!JOIN <id in lower case>,
\* a2:!JOIN <id>, a1:payload, a2:!WHO received in this order with no other
\* packet between them, no sweep that evicts or destroys anything and no failed
\* send, are answered in order: OK CREATED <id> to a1, OK JOINED <id> (upper
\* case) to a1, OK JOINED <id> to a2, the payload to a2 and nothing to a1,
\* OK WHO <id> 2 to a2.
C13_EndToEnd == [][C13_Step]_vars

\* the scenario has just ended with OK WHO <id> 2
C13_Witness ==
    /\ scen = Len(Scenario(None))
    /\ \E gid \in DOMAIN groups : out = {Dgram("a2", OK(Detail("WHO", gid, <<2>>)))}

-----------------------------------------------------------------------------
(* C14 *)

C14_QuotaIndex ==
    /\ DOMAIN groups = DOMAIN group_creator
    /\ DOMAIN creator_active_groups \subseteq Addrs
    /\ \A c \in Addrs : \A gid \in random_group_id(GidLength) :
         (c \in DOMAIN creator_active_groups /\ gid \in creator_active_groups[c])
         <=> (gid \in DOMAIN groups /\ group_creator[gid] = c)

C14_DestroyStep ==
    IsSweep(ev')
    => \A gid \in ev'.removed :
         /\ gid \notin DOMAIN groups'
         /\ gid \notin DOMAIN empty_since'
         /\ gid \notin DOMAIN group_creator'
         /\ \A c \in DOMAIN creator_active_groups' : gid \notin creator_active_groups'[c]
         /\ LET creator == group_creator[gid]
            IN (IF creator \in DOMAIN creator_active_groups'
                THEN Cardinality(creator_active_groups'[creator]) ELSE 0)
               = Cardinality(creator_active_groups[creator]) - 1

C14_CreateBelowCap ==
    (/\ IsPacket(ev')
     /\ ReqToken(ev') = CREATE_CMD
     /\ Cardinality(Owned(ev'.addr)) < max_groups_per_client)
    => Created(out') # {}

\* C14: in every reachable state gid is in creator_active_groups[c] exactly when
\* gid is a live group whose recorded creator is c, and groups and group_creator
\* have the same keys; a sweep that destroys a group takes it out of groups,
\* empty_since, group_creator and its creator's quota set in that one step, the
\* quota set one smaller; and a CREATE from a creator below the cap succeeds.
C14_QuotaRelease == [](C14_QuotaIndex) /\ [][C14_DestroyStep /\ C14_CreateBelowCap]_vars

\* a sweep has just destroyed the last live group: its creator, who was at the
\* cap of one group, has no quota entry left
C14_Witness ==
    /\ IsSweep(ev)
    /\ ev.removed # {}
    /\ groups = EmptyDict
    /\ creator_active_groups = EmptyDict
    /\ max_groups_per_client = 1

-----------------------------------------------------------------------------
(* C15 *)

\* a LEAVE has just been received
IsLeave(e) == IsPacket(e) /\ ReqToken(e) = LEAVE_CMD

C15_EmptyId ==
    (IsLeave(ev') /\ ReqGid(ev') = <<>>)
    => /\ Answered(ev', out', ERR(ERR_BAD_ARG, Text("Usage:!LEAVE <GROUPID>")))
       /\ StateUnchanged

C15_OtherGroup ==
    (IsLeave(ev') /\ ReqGid(ev') # <<>> /\ Get(client_group, ev'.addr) # ReqGid(ev'))
    => /\ Answered(ev', out', ERR(ERR_NOT_IN_GROUP, Text("NotInThatGroup")))
       /\ StateUnchanged

C15_OwnGroup ==
    (IsLeave(ev') /\ ReqGid(ev') # <<>> /\ Get(client_group, ev'.addr) = ReqGid(ev'))
    => LET gid == ReqGid(ev')
           addr == ev'.addr
       IN /\ Answered(ev', out', OK(Detail("LEFT", gid, <<>>)))
          /\ client_group' = Pop(client_group, addr)
          /\ last_seen' = Pop(last_seen, addr)
          /\ addr \in groups[gid]
          /\ groups' = Put(groups, gid, groups[gid] \ {addr})
          /\ empty_since' = IF groups[gid] = {addr}
                            THEN Put(empty_since, gid, now') ELSE empty_since
          /\ group_creator' = group_creator
          /\ creator_active_groups' = creator_active_groups

\* C15: a LEAVE whose id, stripped and upper-cased, is the group the caller is
\* bound to is answered OK LEFT <id>: the caller loses its binding, its
\* membership and its last-activity, and the group's empty-timer is set if it
\* has no member left. With any other non-empty id, or from an unbound caller,
\* it is answered ERR NOT_IN_GROUP and no state changes; with an empty id it is
\* answered ERR BAD_ARG and no state changes.
C15_Leave == [][C15_EmptyId /\ C15_OtherGroup /\ C15_OwnGroup]_vars

\* the last member of a group has just left it, spelling its id in lower case
\* between whitespace
C15_Witness ==
    /\ IsLeave(ev)
    /\ Parsed[ev.pkt].arg # ReqGid(ev)
    /\ Answered(ev, out, OK(Detail("LEFT", ReqGid(ev), <<>>)))
    /\ ev.addr \notin DOMAIN client_group
    /\ groups[ReqGid(ev)] = {}
    /\ empty_since[ReqGid(ev)] = now

-----------------------------------------------------------------------------
(* C16 *)

C16_RecordIffBound == DOMAIN last_seen = DOMAIN client_group

C16_UnboundSender ==
    (/\ IsPacket(ev')
     /\ ev'.addr \notin DOMAIN client_group
     /\ (IsPayload(ev') \/ ReqToken(ev') \in {PING_CMD, WHO_CMD, CREATE_CMD}))
    => /\ last_seen' = last_seen
       /\ ev'.addr \notin DOMAIN last_seen'

C16_Removal ==
    /\ (IsLeave(ev') /\ \E d \in out' : d.data.head = "OK")
       => ev'.addr \notin DOMAIN last_seen'
    /\ IsSweep(ev')
       => \A a \in DOMAIN client_group : a \notin DOMAIN client_group' => a \notin DOMAIN last_seen'
    /\ IsPacket(ev')
       => \A d \in out' : d.failed => d.to \notin DOMAIN last_seen'

\* C16: in every reachable state an address has a last_seen entry exactly when
\* it is bound to a group; PING, WHO, CREATE and payloads from an unbound
\* address create none; a successful LEAVE, a sweep eviction and a failed
\* fan-out send remove the entry of the address concerned.
C16_SessionRecord == [](C16_RecordIffBound) /\ [][C16_UnboundSender /\ C16_Removal]_vars

\* an unbound address has just sent a PING: it is refused and has no record,
\* while the other address, bound, has its record
C16_Witness ==
    /\ IsPacket(ev)
    /\ ReqToken(ev) = PING_CMD
    /\ \E d \in out : d.data.code = ERR_NOT_IN_GROUP
    /\ ev.addr \notin DOMAIN last_seen
    /\ DOMAIN last_seen # {}

-----------------------------------------------------------------------------
(* C17 *)

\* the step answered its sender with one of these success replies
Succeeded(e, o, kinds) ==
    /\ IsPacket(e)
    /\ \E d \in o : /\ o = {d}
                     /\ d.to = e.addr
                     /\ \/ d.data.head = "OK" /\ d.data.detail.text \in kinds
                        \/ d.data.head = "PONG" /\ "PONG" \in kinds

C17_AnySuccessStep ==
    (/\ Succeeded(ev', out', {"CREATED", "JOINED", "WHO", "PONG"})
     /\ ev'.addr \in DOMAIN client_group')
    => /\ ev'.addr \in DOMAIN last_seen'
       /\ last_seen'[ev'.addr] = now'

\* C17 as claimed: every command answered OK CREATED, OK JOINED, OK WHO or
\* PONG whose sender is bound afterwards sets the sender's last_seen to the
\* server's current time.
C17_AllSuccessRefresh == [][C17_AnySuccessStep]_vars

C17_JoinPingStep ==
    (/\ Succeeded(ev', out', {"JOINED", "PONG"})
     /\ ev'.addr \in DOMAIN client_group')
    => last_seen' = Put(last_seen, ev'.addr, now')

C17_WhoCreateStep ==
    Succeeded(ev', out', {"WHO", "CREATED"}) => last_seen' = last_seen

\* C17 amended: a command answered OK JOINED or PONG sets the sender's
\* last_seen to self.now, the time the loop sampled before it waited for the
\* packet, and changes no other entry; a command answered OK WHO or OK CREATED
\* changes no last_seen entry.
C17_JoinPingRefresh == [][C17_JoinPingStep /\ C17_WhoCreateStep]_vars

\* a PING has just refreshed a session that began in an earlier iteration
C17_Witness ==
    /\ Succeeded(ev, out, {"PONG"})
    /\ ReqToken(ev) = PING_CMD
    /\ last_seen[ev.addr] = now
    /\ now > 0
    /\ ev.was # None

-----------------------------------------------------------------------------
(* C18 *)

\* the timeout the iteration of this step gave to select, and how long it waited
TimeoutUsed == Max2(0, next_sweep - now')

Waited == clock' - clock

C18_WaitBounded ==
    (IsPacket(ev') \/ ev'.kind = "timeout")
    => /\ TimeoutUsed >= 0
       /\ TimeoutUsed <= sweep_interval_sec
       /\ TimeoutUsed >= next_sweep - now'
       /\ Waited <= TimeoutUsed

C18_SweepOnExpiry ==
    ev'.kind = "timeout"
    => /\ Waited = TimeoutUsed
       /\ ev'.swept
       /\ next_sweep' = now' + sweep_interval_sec

\* C18: every loop iteration waits with a timeout equal to the time left until
\* next_sweep, at least 0 and at most sweep_interval_sec, and an iteration whose
\* wait expires with nothing to read runs the sweep and recomputes next_sweep
\* before it ends.
C18_SweepInSameIteration == [][C18_WaitBounded /\ C18_SweepOnExpiry]_vars

-----------------------------------------------------------------------------
(* C19 *)

\* the peers the fan-out of this step failed to send to
FailedPeers(o) == {d.to : d \in {x \in o : x.failed}}

C19_FailureStep ==
    (/\ IsPacket(ev')
     /\ IsPayload(ev')
     /\ ev'.addr \in DOMAIN client_group
     /\ client_group[ev'.addr] \in DOMAIN groups
     /\ FailedPeers(out') # {})
    => LET addr == ev'.addr
           gid == client_group[addr]
           gone == FailedPeers(out')
       IN /\ groups' = Put(groups, gid, groups[gid] \ gone)
          /\ \A p \in gone : p \notin DOMAIN client_group' /\ p \notin DOMAIN last_seen'
          /\ \A p \in (groups[gid] \ {addr}) \ gone :
               /\ Dgram(p, Raw(AllPackets[ev'.pkt])) \in out'
               /\ Get(client_group', p) = gid
          /\ \A d \in out' : d.data = Raw(AllPackets[ev'.pkt]) /\ d.to # addr
          /\ \A d \in out' : d.to \in gone => d.failed
          /\ addr \notin gone
          /\ addr \in groups'[gid]
          /\ Get(client_group', addr) = gid
          /\ \A a \in FanoutAddrs : \A g \in DOMAIN groups' :
               (a \in groups'[g]) <=> (Get(client_group', a) = g)
          /\ \A g \in DOMAIN groups' : (g \in DOMAIN empty_since') <=> (groups'[g] = {})
          /\ DOMAIN empty_since' \subseteq DOMAIN groups'

\* C19: when sends of a payload fan-out fail, each peer whose send failed is
\* removed from the group's member set, from client_group and from last_seen;
\* every other peer is still sent the payload and stays a member; nothing but
\* the payload is sent, and nothing to the sender; the sender stays a member;
\* and afterwards membership and bindings agree and a group has an empty-timer
\* exactly when it has no member.
C19_FanoutFailure == [][C19_FailureStep]_vars

\* of three members, one has just sent a payload: the send to one peer failed
\* and that peer is gone, the send to the other went through
C19_Witness ==
    /\ IsPacket(ev)
    /\ IsPayload(ev)
    /\ \E d1, d2 \in out :
         /\ d1.failed /\ d1.to \notin DOMAIN client_group
         /\ ~d2.failed /\ Get(client_group, d2.to) = Get(client_group, ev.addr)
    /\ ev.addr \in DOMAIN client_group

-----------------------------------------------------------------------------
(* C20 *)

\* every group id the server holds
StoredIds ==
    (DOMAIN groups) \cup (DOMAIN group_creator) \cup (DOMAIN empty_since)
    \cup {client_group[a] : a \in DOMAIN client_group}
    \cup UNION {creator_active_groups[c] : c \in DOMAIN creator_active_groups}

C20_StoredUpperCase == \A gid \in StoredIds : gid = Upper(gid) /\ gid = Strip(gid)

\* the argument of the step's command is not the id as the server stores it
IsVariant(e) == Parsed[e.pkt].arg # ReqGid(e)

C20_VariantStep ==
    (/\ IsPacket(ev')
     /\ ReqToken(ev') \in {JOIN_CMD, LEAVE_CMD}
     /\ ReqGid(ev') \in DOMAIN groups
     /\ IsVariant(ev'))
    => \E S \in {[Cur EXCEPT !.now = now']}, gid \in {ReqGid(ev')} :
         \E r \in {process_packet(S, CmdArg(ReqToken(ev'), gid), ev'.addr, None, {})} :
           /\ out' = r.out
           /\ groups' = r.st.groups
           /\ group_creator' = r.st.group_creator
           /\ empty_since' = r.st.empty_since
           /\ creator_active_groups' = r.st.creator_active_groups
           /\ client_group' = r.st.client_group
           /\ last_seen' = r.st.last_seen
           /\ \A d \in out' : d.data.detail.gid \in {<<>>, gid}
           /\ \A d \in out' : d.data.head = "OK" => d.data.detail.gid = gid

\* C20: a JOIN or LEAVE that names a live group in another case, or between
\* whitespace, sends what the same command with the upper-case id would send
\* and leaves the state that command would leave; the id in its reply is the
\* upper-case one; and every id in groups, group_creator, empty_since,
\* client_group and the quota sets is upper-case.
C20_CaseInsensitiveIds == [](C20_StoredUpperCase) /\ [][C20_VariantStep]_vars

\* a JOIN spelling a live group's id in lower case between whitespace has just
\* bound its sender to the upper-case id
C20_Witness ==
    /\ IsPacket(ev)
    /\ ReqToken(ev) = JOIN_CMD
    /\ Strip(Parsed[ev.pkt].arg) # Parsed[ev.pkt].arg
    /\ Strip(Parsed[ev.pkt].arg) # ReqGid(ev)
    /\ Answered(ev, out, OK(Detail("JOINED", ReqGid(ev), <<>>)))
    /\ Get(client_group, ev.addr) = ReqGid(ev)
    /\ ev.was # ReqGid(ev)

-----------------------------------------------------------------------------
(* C21 *)

\* the five command tokens
Commands == {CREATE_CMD, JOIN_CMD, LEAVE_CMD, PING_CMD, WHO_CMD}

\* each packet of AllPackets read as the claim reads it: the bytes between the
\* first byte and the first space of the packet (or its end), and the bytes
\* after that space
Tokenised ==
    [p \in 1..Len(AllPackets) |->
        LET sp == FindSpace(AllPackets[p])
        IN [tok |-> IF sp = -1 THEN Slice(AllPackets[p], 1, Len(AllPackets[p]))
                    ELSE Slice(AllPackets[p], 1, sp),
            arg |-> IF sp = -1 THEN <<>>
                    ELSE Slice(AllPackets[p], sp + 1, Len(AllPackets[p]))]]

\* the step's packet starts with the command prefix
IsCommandPacket(e) == AllPackets[e.pkt][1] = "!"

\* what the handler of command tok can do with argument arg
Dispatched(S, tok, arg, addr) ==
    IF tok = CREATE_CMD
    THEN {handle_create(S, addr, gid) : gid \in FreshIds(S, Cmd(CREATE_CMD), addr)}
    ELSE IF tok = JOIN_CMD THEN {handle_join(S, arg, addr)}
    ELSE IF tok = LEAVE_CMD THEN {handle_leave(S, arg, addr)}
    ELSE IF tok = PING_CMD THEN {handle_ping(S, addr)}
    ELSE {handle_who(S, addr)}

\* the step sent r.out and left the dictionaries of r.st
StepGives(r) ==
    /\ out' = r.out
    /\ groups' = r.st.groups
    /\ group_creator' = r.st.group_creator
    /\ empty_since' = r.st.empty_since
    /\ creator_active_groups' = r.st.creator_active_groups
    /\ client_group' = r.st.client_group
    /\ last_seen' = r.st.last_seen

C21_ParseStep ==
    (IsPacket(ev') /\ IsCommandPacket(ev'))
    => \E S \in {[Cur EXCEPT !.now = now']}, t \in {Tokenised[ev'.pkt]} :
         IF t.tok \in Commands
         THEN /\ \E r \in Dispatched(S, t.tok, t.arg, ev'.addr) : StepGives(r)
              /\ \A d \in out' : d.data.code # ERR_BAD_CMD
         ELSE /\ Answered(ev', out', ERR(ERR_BAD_CMD, Text("UnknownCommand")))
              /\ StateUnchanged

\* C21: a '!' packet handed to the command dispatcher is run by the handler of
\* a command exactly when the bytes between the '!' and the packet's first
\* space (or its end) are, byte for byte, CREATE, JOIN, LEAVE, PING or WHO; the
\* handler gets everything after that space as the argument. Every other '!'
\* packet (no token, a lower-case token, a token of more than six bytes, an
\* unknown token) is answered ERR BAD_CMD UnknownCommand and no state changes.
C21_CommandParsing == [][C21_ParseStep]_vars

\* "!CREATE x", whose space is the last byte the parser looks at, has just
\* created a group
C21_Witness ==
    /\ IsPacket(ev)
    /\ AllPackets[ev.pkt] = CmdArg(CREATE_CMD, <<"x">>)
    /\ Created(out) # {}
    /\ Created(out) \subseteq DOMAIN groups

-----------------------------------------------------------------------------
(* C22 *)

\* C22: whenever the sweep deadline has been reached (the time is next_sweep
\* or later), a sweep eventually runs, whatever packets arrive, also when the
\* socket is readable in every iteration.
C22_SweepEventually == (clock >= next_sweep) ~> IsSweep(ev)

-----------------------------------------------------------------------------
(* C23 *)

\* the datagrams of o that are ERR replies
Errors(o) == {d \in o : d.data.head = "ERR"}

\* the six error codes
ErrorCodes ==
    {ERR_BAD_CMD, ERR_BAD_ARG, ERR_NOT_IN_GROUP, ERR_GROUP_FULL,
     ERR_CLIENT_LIMIT, ERR_TOO_LARGE}

C23_ErrStep ==
    (IsPacket(ev') /\ Errors(out') # {})
    => /\ StateUnchanged
       /\ \A d \in Errors(out') : d.to = ev'.addr /\ d.data.code \in ErrorCodes

\* C23: every packet that is answered with an ERR reply (BAD_CMD, BAD_ARG,
\* NOT_IN_GROUP, GROUP_FULL, CLIENT_LIMIT, TOO_LARGE) leaves groups,
\* group_creator, empty_since, creator_active_groups, client_group and
\* last_seen as they were; the reply goes to the packet's sender.
C23_ErrorsChangeNothing == [][C23_ErrStep]_vars

\* a member of one group has just been refused by another, full, group
C23_Witness ==
    /\ IsPacket(ev)
    /\ \E d \in Errors(out) : d.data.code = ERR_GROUP_FULL
    /\ ev.was # None
    /\ ev.addr \in DOMAIN client_group
    /\ client_group[ev.addr] = ev.was

-----------------------------------------------------------------------------
(* C24 *)

\* every bound address's recorded group is a live group
C24_BindingsLive == \A a \in DOMAIN client_group : client_group[a] \in DOMAIN groups

\* a sweep destroys only groups that had no member and no bound address when
\* it started, and that have none when it ends
C24_SweepStep ==
    IsSweep(ev')
    => \A g \in (DOMAIN groups) \ DOMAIN groups' :
         /\ groups[g] = {}
         /\ \A a \in DOMAIN client_group : client_group[a] # g
         /\ \A a \in DOMAIN client_group' : client_group'[a] # g

\* a PING, a WHO or a payload from a bound address never takes the branch
\* that answers ERR NOT_IN_GROUP
C24_BoundSenderStep ==
    (/\ IsPacket(ev')
     /\ ev'.was # None
     /\ IsPayload(ev') \/ ReqToken(ev') \in {PING_CMD, WHO_CMD})
    => \A d \in out' : d.data.code # ERR_NOT_IN_GROUP

\* C24: the sweeper never destroys a group that has a member; so in every
\* reachable state every bound address's recorded group is a live group, and
\* the branches of PING, WHO and payload handling for a binding that points at
\* a missing group are never taken.
C24_NoStaleBinding ==
    [](C24_BindingsLive) /\ [][C24_SweepStep /\ C24_BoundSenderStep]_vars

\* a sweep has just destroyed a group while an address is bound to another one
C24_Witness ==
    /\ IsSweep(ev)
    /\ ev.removed # {}
    /\ client_group # EmptyDict

====
